---- MODULE Spec2Model ----
(***************************************************************************)
(* Model of matplotters/src/series/mat_line_series.rs: the MatLineSeries   *)
(* builder (from_xy, from_y for every integer kind, point_size) and the    *)
(* element iterator kept in the file as the commented-out                  *)
(* `impl Iterator for MatLineSeries`.                                      *)
(*                                                                         *)
(* Integer widths are scaled down: usize has UsizeBits bits, the kinds     *)
(* narrower than usize (u8 u16 u32 i8 i16 i32) have one bit less, the      *)
(* kinds as wide as usize (u64 usize i64 isize) have UsizeBits bits, and   *)
(* the wider kinds (u128 i128) one bit more.  `as` casts wrap exactly as   *)
(* Rust's integer casts do (value modulo 2^bits, read as signed or         *)
(* unsigned).                                                              *)
(***************************************************************************)
EXTENDS Integers, Sequences, FiniteSets, TLC

(* ------------------------------ bounds -------------------------------- *)

\* width of usize in the model
UsizeBits == 2

\* longest input sequence given to from_xy
MaxLen == 3

\* largest argument given to point_size
MaxSize == 1

(* ------------------------------ helpers ------------------------------- *)

RECURSIVE Pow2(_)
Pow2(n) == IF n = 0 THEN 1 ELSE 2 * Pow2(n - 1)

\* usize::MAX
UsizeMax == Pow2(UsizeBits) - 1

\* the integer kinds the macro is instantiated for
IntKinds ==
    {"u8", "u16", "u32", "u64", "u128", "usize",
     "i8", "i16", "i32", "i64", "i128", "isize"}

Signed(T) == T \in {"i8", "i16", "i32", "i64", "i128", "isize"}

\* scaled width of each kind, relative to usize
Bits(T) ==
    IF T \in {"u8", "u16", "u32", "i8", "i16", "i32"} THEN UsizeBits - 1
    ELSE IF T \in {"u64", "usize", "i64", "isize"} THEN UsizeBits
    ELSE UsizeBits + 1

\* <T>::MAX
MAX(T) == IF Signed(T) THEN Pow2(Bits(T) - 1) - 1 ELSE Pow2(Bits(T)) - 1

\* `v as T` between integer kinds: truncate or extend, then reinterpret
as(v, T) ==
    LET m == v % Pow2(Bits(T))
    IN  IF Signed(T) /\ m >= Pow2(Bits(T) - 1) THEN m - Pow2(Bits(T)) ELSE m

\* the values of the coordinate types X and Y
Vals == {1, 2}

\* all sequences over S of length at most n
SeqsUpTo(S, n) == UNION {[1..k -> S] : k \in 0..n}

\* a y sequence with n distinct elements (10, 20, 30, ...)
CountSeq(n) == [i \in 1..n |-> 10 * i]

\* the sequences handed to the constructors; y may be as long as usize::MAX
\* (a Vec of a zero-sized Y, such as vec![(); n], has no capacity limit)
XInputs == SeqsUpTo(Vals, MaxLen)
YInputs == SeqsUpTo(Vals, MaxLen) \cup {CountSeq(n) : n \in 0..UsizeMax}

\* the arguments handed to point_size
Sizes == 0..MaxSize

\* BLACK.into()
BLACK == "BLACK"

\* Iterator::take(n).collect() on a vector
take(s, n) == IF n >= Len(s) THEN s ELSE SubSeq(s, 1, n)

\* (0..end).collect()
range(end) == [i \in 1..end |-> i - 1]

\* (0..=max).chain(repeat(max)).take(n).collect()
chain_repeat_take(max, n) == [i \in 1..n |-> IF i - 1 <= max THEN i - 1 ELSE max]

(* ---------------------------- constructors ---------------------------- *)

\* the test `(possibly_wrong_y_len as usize) != y_len`
overflowed(T, y_len) == as(as(y_len, T), "usize") # y_len

from_y(T, y_iter) ==
    LET y_len == Len(y_iter)
        possibly_wrong_y_len == as(y_len, T)
    IN  [style |-> BLACK,
         y |-> y_iter,
         x |-> IF overflowed(T, y_len)
               THEN chain_repeat_take(MAX(T), y_len)
               ELSE range(possibly_wrong_y_len),
         point_size |-> 0]

\* mutant of from_xy: the Ordering::Less arm is missing
from_xy_keeps_long_y(x_iter, y_iter) ==
    [style |-> BLACK,
     y |-> y_iter,
     x |-> IF Len(x_iter) > Len(y_iter) THEN take(x_iter, Len(y_iter)) ELSE x_iter,
     point_size |-> 0]

from_xy(x_iter, y_iter) ==
    [style |-> BLACK,
     y |-> IF Len(x_iter) < Len(y_iter) THEN take(y_iter, Len(x_iter)) ELSE y_iter,
     x |-> IF Len(x_iter) > Len(y_iter) THEN take(x_iter, Len(y_iter)) ELSE x_iter,
     point_size |-> 0]

(* ------------------------------- state -------------------------------- *)

VARIABLES
    op,          \* the last operation performed on the builder
    in_x, in_y,  \* the sequences the caller passes to the constructor
    in_T,        \* the integer kind from_y is instantiated for ("none": from_xy)
    branch,      \* the branch from_y took: "saturate" or "range"
    style, y, x, point_size,   \* the fields of MatLineSeries
    point_idx,   \* the iterator's marker cursor
    ret,         \* what the last call of next returned (<<>> is None)
    out,         \* every element next has returned so far, in order
    emit_sizes,  \* the point_size values under which elements were returned
    size_args    \* the arguments of the latest two point_size calls, oldest first

vars == <<op, in_x, in_y, in_T, branch, style, y, x, point_size,
          point_idx, ret, out, emit_sizes, size_args>>

\* the (x, y) pairs the iterator walks over (its `data`)
data == [i \in 1..(IF Len(x) < Len(y) THEN Len(x) ELSE Len(y)) |-> <<x[i], y[i]>>]

Circle(pos, size, st) == [shape |-> "Circle", pos |-> pos, size |-> size, style |-> st]

PathElement(points, st) == [shape |-> "Path", points |-> points, style |-> st]

Init ==
    /\ op = "none"
    /\ in_T \in IntKinds \cup {"none"}
    /\ in_x \in IF in_T = "none" THEN XInputs ELSE {<<>>}
    /\ in_y \in YInputs
    /\ branch = "none"
    /\ style = BLACK
    /\ y = <<>>
    /\ x = <<>>
    /\ point_size = 0
    /\ point_idx = 0
    /\ ret = <<>>
    /\ out = <<>>
    /\ emit_sizes = {}
    /\ size_args = <<>>

FromXY ==
    /\ op = "none"
    /\ in_T = "none"
    /\ LET self == from_xy(in_x, in_y)
       IN  /\ style' = self.style
           /\ y' = self.y
           /\ x' = self.x
           /\ point_size' = self.point_size
    /\ op' = "from_xy"
    /\ UNCHANGED <<in_x, in_y, in_T, branch, point_idx, ret, out, emit_sizes, size_args>>

FromY ==
    /\ op = "none"
    /\ in_T \in IntKinds
    /\ LET self == from_y(in_T, in_y)
       IN  /\ style' = self.style
           /\ y' = self.y
           /\ x' = self.x
           /\ point_size' = self.point_size
    /\ branch' = IF overflowed(in_T, Len(in_y)) THEN "saturate" ELSE "range"
    /\ op' = "from_y"
    /\ UNCHANGED <<in_x, in_y, in_T, point_idx, ret, out, emit_sizes, size_args>>

\* mutant of PointSize: a smaller radius does not replace a larger one
PointSize_keeps_larger(size) ==
    /\ op # "none"
    /\ point_size' = IF size > point_size THEN size ELSE point_size
    /\ size_args' = IF size_args = <<>> THEN <<size>> ELSE <<size_args[Len(size_args)], size>>
    /\ op' = "point_size"
    /\ UNCHANGED <<in_x, in_y, in_T, branch, style, y, x, point_idx, ret, out, emit_sizes>>

\* mutant of PointSize: the setter rebuilds the series and loses the data
PointSize_resets_data(size) ==
    /\ op # "none"
    /\ point_size' = size
    /\ x' = <<>>
    /\ y' = <<>>
    /\ size_args' = IF size_args = <<>> THEN <<size>> ELSE <<size_args[Len(size_args)], size>>
    /\ op' = "point_size"
    /\ UNCHANGED <<in_x, in_y, in_T, branch, style, point_idx, ret, out, emit_sizes>>

PointSize(size) ==
    /\ op # "none"
    /\ point_size' = size
    /\ size_args' = IF size_args = <<>> THEN <<size>> ELSE <<size_args[Len(size_args)], size>>
    /\ op' = "point_size"
    /\ UNCHANGED <<in_x, in_y, in_T, branch, style, y, x, point_idx, ret, out, emit_sizes>>

\* mutant of has_data: the emptiness test is dropped
has_data_always == TRUE

\* `!self.data.is_empty()`
has_data == data # <<>>

\* mutant of marker_due: the cursor stops one pair early
marker_due_one_short == point_size > 0 /\ point_idx + 1 < Len(data)

\* mutant of marker_due: radius 0 still produces markers
marker_due_at_zero == point_size >= 0 /\ point_idx < Len(data)

\* `self.point_size > 0 && self.point_idx < self.data.len()`
marker_due == point_size > 0 /\ point_idx < Len(data)

\* mutant of mem_swap: the data is copied out instead of swapped out
mem_swap_copies(a, b) == <<a, a>>

\* std::mem::swap(&mut a, &mut b): the pair (a, b) afterwards
mem_swap(a, b) == <<b, a>>

next ==
    /\ op # "none"
    /\ op' = "next"
    /\ IF has_data
       THEN IF marker_due
            THEN /\ point_idx' = point_idx + 1
                 /\ ret' = <<Circle(data[point_idx + 1], point_size, style)>>
                 /\ UNCHANGED <<x, y>>
            ELSE LET swapped == mem_swap(data, <<>>)
                 IN  /\ x' = [i \in 1..Len(swapped[1]) |-> swapped[1][i][1]]
                     /\ y' = [i \in 1..Len(swapped[1]) |-> swapped[1][i][2]]
                     /\ ret' = <<PathElement(swapped[2], style)>>
                     /\ UNCHANGED point_idx
       ELSE /\ ret' = <<>>
            /\ UNCHANGED <<x, y, point_idx>>
    /\ out' = out \o ret'
    /\ emit_sizes' = IF ret' # <<>> THEN emit_sizes \cup {point_size} ELSE emit_sizes
    /\ UNCHANGED <<in_x, in_y, in_T, branch, style, point_size, size_args>>

Next ==
    \/ FromXY
    \/ FromY
    \/ \E size \in Sizes : PointSize(size)
    \/ next

Spec == Init /\ [][Next]_vars

TypeOK ==
    /\ op \in {"none", "from_xy", "from_y", "point_size", "next"}
    /\ point_size \in Sizes
    /\ point_idx \in 0..UsizeMax

(* --------------------------- shared notions -------------------------- *)

Min(a, b) == IF a < b THEN a ELSE b

\* a constructor has run
Built == op # "none"

BuiltByXY == Built /\ in_T = "none"

BuiltByY == Built /\ in_T # "none"

\* the path element has been returned
Drained == \E i \in 1..Len(out) : out[i].shape = "Path"

\* the pairs the builder held when construction finished
StoredPairs ==
    LET self == IF in_T = "none" THEN from_xy(in_x, in_y) ELSE from_y(in_T, in_y)
    IN  [i \in 1..Min(Len(self.x), Len(self.y)) |-> <<self.x[i], self.y[i]>>]

Count(shape) == Cardinality({i \in 1..Len(out) : out[i].shape = shape})

(* ------------------------------- claims ------------------------------- *)

C2_FromYAxis ==
    (BuiltByY /\ ~Drained) =>
        x = [i \in 1..Len(in_y) |-> IF i - 1 <= MAX(in_T) THEN i - 1 ELSE MAX(in_T)]

\* C3: the stored x and y sequences always have the same length, and after
\* from_y that length is len(y).
C3_EqualLengths ==
    /\ Len(x) = Len(y)
    /\ (BuiltByY /\ ~Drained) => Len(x) = Len(in_y)

\* C9: from_y takes the saturating branch exactly when the element count
\* does not fit in T (n > T::MAX), and the plain 0..n branch otherwise.
C9_OverflowDetected ==
    BuiltByY => (branch = "saturate" <=> Len(in_y) > MAX(in_T))

\* the markers for the pairs ps, in order, all of radius r
Markers(ps, r) == [i \in 1..Len(ps) |-> Circle(ps[i], r, BLACK)]

EmptyBuilder ==
    \/ BuiltByXY /\ (in_x = <<>> \/ in_y = <<>>)
    \/ BuiltByY /\ in_y = <<>>

C8_LastWriteWins ==
    Built => point_size = (IF size_args = <<>> THEN 0 ELSE size_args[Len(size_args)])

C8_Witness ==
    /\ op = "point_size"
    /\ out = <<>>
    /\ size_args = <<1, 0>>
    /\ point_size = 0

\* C10: point_size changes only the radius: the stored x and y sequences and
\* the style are the same after the call as before it.
C10_PointSizeFrame ==
    [][op' = "point_size" => (x' = x /\ y' = y /\ style' = style)]_vars

C10_Witness ==
    /\ op = "point_size"
    /\ point_size = 1
    /\ Len(x) = 3
    /\ x = in_x
    /\ y = in_y
====
